---- MODULE Spec2Model ----
(***************************************************************************)
(* Model of src/main.py: the ingestion of the tagged corpus (parse_xmls),  *)
(* the frequency ranking, the word-adjacency graph (create_word_graph),    *)
(* the weighted-degree ranking, the coverage walk and the report written   *)
(* by main.                                                                *)
(*                                                                         *)
(* A Python dict is insertion ordered, so found_words is a sequence of     *)
(* records in first-seen order.  A networkx Graph is a record of its node  *)
(* sequence (insertion order, the order G.degree iterates in) and a weight *)
(* function over edge keys; the key of an undirected edge u-v is the set   *)
(* {u, v}, which is the singleton {u} for a self-loop.                     *)
(***************************************************************************)
EXTENDS Integers, Sequences, FiniteSets, TLC

\* ---------------------------------------------------------------- bounds
\* Longest token sequence ingested under Spec and SpecGraph.
MaxTokens == 4
\* Largest cutoff handed to create_word_graph under SpecGraph.
MaxCut == 3
\* Longest token sequence ingested under SpecCoverage.
MaxCovTokens == 10

\* ------------------------------------------------------ program constants
Top50 == 50
Top200 == 200
Top2000 == 2000
Top50Nouns == 50

\* ------------------------------------------------------------ input sets
Lemmas == {"a", "b", "c"}
POSTags == {"noun", "verb"}
CovLemmas == {"a", "b"}
CovTags == {"noun"}
\* Kinds of element whose "end" event adds no token: an element that is not
\* a word, a word without a lemma child, a lemma without an entry attribute.
SkippedKinds == {"other", "nolemma", "noentry"}
\* What one request to the definition service can come to.
Responses == {"ok200", "status404", "malformed200", "neterr"}
None == "None"
Raised == "raised"

VARIABLES
    pc,                        \* position of main
    aborted,                   \* an exception left main
    last_elem,                 \* parse_xmls: kind of the element iterparse gave last
    file_start,                \* parse_xmls: len(text_words) when the current file was opened
    text_words,                \* parse_xmls: tokens in occurrence order
    found_words,               \* parse_xmls: entry -> [POS, count]
    sorted_by_count,           \* main
    words_ranking,             \* main
    number_of_words,           \* create_word_graph: the cutoff of the last call
    G,                         \* main: the graph of the 2000 most frequent words
    ALL,                       \* main: the graph of the whole vocabulary
    top_words_by_connections,  \* main
    all_words_by_connections,  \* main
    total_words,               \* main
    cumulative_sum,            \* main
    i,                         \* main: the counter i of the current section
    out,                       \* the lines of word_ranking.txt
    calls,                     \* lemmas translate_wiki was called with, in order
    response,                  \* what the last request of translate_wiki came to
    translation                \* what the last translate_wiki call returned

vars == <<pc, aborted, last_elem, file_start, text_words, found_words,
          sorted_by_count, words_ranking, number_of_words, G, ALL,
          top_words_by_connections, all_words_by_connections, total_words,
          cumulative_sum, i, out, calls, response, translation>>

main_vars == <<sorted_by_count, words_ranking, number_of_words, G, ALL,
               top_words_by_connections, all_words_by_connections,
               total_words, cumulative_sum, i, out, calls, response,
               translation>>

\* ------------------------------------------------------------- helpers
Min(a, b) == IF a < b THEN a ELSE b

Range(s) == {s[k] : k \in DOMAIN s}

RECURSIVE SumCounts(_)
SumCounts(fw) ==
    IF fw = <<>> THEN 0
    ELSE fw[Len(fw)].count + SumCounts(SubSeq(fw, 1, Len(fw) - 1))

\* Position of entry in the table, 0 when it is not a key.
IndexOf(fw, entry) ==
    IF \E k \in DOMAIN fw : fw[k].entry = entry
    THEN CHOOSE k \in DOMAIN fw : fw[k].entry = entry
    ELSE 0

\* found_words[entry][1], the occurrence count of a key.
CountOf(fw, entry) == fw[IndexOf(fw, entry)].count

\* ------------------------------------------------------------ parse_xmls
\* Mutant: a repeated lemma is stored again instead of counted.
CountWordNoIncrement(fw, entry, POS) ==
    IF IndexOf(fw, entry) # 0
    THEN [fw EXCEPT ![IndexOf(fw, entry)] = [entry |-> entry, POS |-> POS, count |-> 1]]
    ELSE Append(fw, [entry |-> entry, POS |-> POS, count |-> 1])

\* Mutant: a repeated lemma is counted and takes the tag of the occurrence.
CountWordLastTag(fw, entry, POS) ==
    IF IndexOf(fw, entry) # 0
    THEN [fw EXCEPT ![IndexOf(fw, entry)] =
              [entry |-> entry, POS |-> POS, count |-> @.count + 1]]
    ELSE Append(fw, [entry |-> entry, POS |-> POS, count |-> 1])

\* The update of found_words for one token.
CountWord(fw, entry, POS) ==
    IF IndexOf(fw, entry) # 0
    THEN [fw EXCEPT ![IndexOf(fw, entry)].count = @ + 1]
    ELSE Append(fw, [entry |-> entry, POS |-> POS, count |-> 1])

\* The for loop over z.namelist() reaches an xml file and opens it; the
\* archive may hold any number of them, each with any number of elements.
NextXmlFile ==
    /\ pc = "parse"
    /\ last_elem' = "open"
    /\ file_start' = Len(text_words)
    /\ UNCHANGED <<pc, aborted, text_words, found_words>>
    /\ UNCHANGED main_vars

\* An "end" event for an element that yields no token.
SkipElement(kind) ==
    /\ pc = "parse"
    /\ last_elem # "none"
    /\ last_elem' = kind
    /\ UNCHANGED <<pc, aborted, file_start, text_words, found_words>>
    /\ UNCHANGED main_vars

\* An "end" event for a word whose lemma child has an entry attribute.
IngestToken(entry, POS) ==
    /\ pc = "parse"
    /\ last_elem # "none"
    /\ last_elem' = "token"
    /\ found_words' = CountWord(found_words, entry, POS)
    /\ text_words' = Append(text_words, <<entry, POS>>)
    /\ UNCHANGED <<pc, aborted, file_start>>
    /\ UNCHANGED main_vars

\* parse_xmls returns text_words and found_words to main; its locals end.
ReturnFromParse ==
    /\ pc = "parse"
    /\ pc' = "sort"
    /\ last_elem' = "eof"
    /\ file_start' = 0
    /\ UNCHANGED <<aborted, text_words, found_words>>
    /\ UNCHANGED main_vars

\* ------------------------------------------------------------ sorted()
\* sorted(..., key, reverse=True) is stable: elements of equal key keep the
\* order of the input.  Elements are pairs <<item, key>>.

\* Mutant: an element goes before the elements of equal key.
InsertDescBeforeEqual(sorted, x) ==
    LET later == {j \in DOMAIN sorted : sorted[j][2] <= x[2]}
        p == IF later = {} THEN Len(sorted) + 1
             ELSE CHOOSE j \in later : \A k \in later : j <= k
    IN  SubSeq(sorted, 1, p - 1) \o <<x>> \o SubSeq(sorted, p, Len(sorted))

\* x goes after every element whose key is greater or equal.
InsertDesc(sorted, x) ==
    LET later == {j \in DOMAIN sorted : sorted[j][2] < x[2]}
        p == IF later = {} THEN Len(sorted) + 1
             ELSE CHOOSE j \in later : \A k \in later : j <= k
    IN  SubSeq(sorted, 1, p - 1) \o <<x>> \o SubSeq(sorted, p, Len(sorted))

RECURSIVE SortDesc(_)
SortDesc(s) ==
    IF s = <<>> THEN <<>>
    ELSE InsertDesc(SortDesc(SubSeq(s, 1, Len(s) - 1)), s[Len(s)])

\* sorted(found_words.items(), key=lambda kv: kv[1][1], reverse=True)
SortedByCount(fw) ==
    LET keyed == [k \in DOMAIN fw |-> <<fw[k], fw[k].count>>]
        srt == SortDesc(keyed)
    IN  [k \in DOMAIN srt |-> srt[k][1]]

\* words_ranking: (word, count, rank, count * rank, POS), rank from 1.
WordsRanking(sorted_words) ==
    [rank \in DOMAIN sorted_words |->
        [word |-> sorted_words[rank].entry,
         count |-> sorted_words[rank].count,
         rank |-> rank,
         product |-> sorted_words[rank].count * rank,
         POS |-> sorted_words[rank].POS]]

\* ------------------------------------------------------ create_word_graph
EmptyGraph == [nodes |-> <<>>, w |-> [k \in {} |-> 0]]

\* word in G
InGraph(g, n) == n \in Range(g.nodes)

\* G.has_edge(u, v)
HasEdge(g, u, v) == {u, v} \in DOMAIN g.w

\* The weight of the edge u-v, 0 when there is none.
Weight(g, u, v) == IF HasEdge(g, u, v) THEN g.w[{u, v}] ELSE 0

\* The body of the loop for one pair of neighbouring tokens.
AddPair(g, word1, word2) ==
    IF InGraph(g, word1) /\ InGraph(g, word2)
    THEN IF HasEdge(g, word1, word2)
         THEN [g EXCEPT !.w[{word1, word2}] = @ + 1]
         ELSE [g EXCEPT !.w = ({word1, word2} :> 1) @@ g.w]
    ELSE g

\* The loop over range(len(text_words) - 1), up to and including index n.
RECURSIVE ScanPairs(_, _, _)
ScanPairs(g, text, n) ==
    IF n < 1 THEN g
    ELSE AddPair(ScanPairs(g, text, n - 1), text[n], text[n + 1])

\* sorted_words[:number_of_words], the nodes (word, POS) of the slice, then
\* the scan of the token sequence.
CreateWordGraph(sorted_words, cutoff, text) ==
    LET first_words == SubSeq(sorted_words, 1, Min(cutoff, Len(sorted_words)))
        g0 == [nodes |-> [k \in DOMAIN first_words |->
                            <<first_words[k].entry, first_words[k].POS>>],
               w |-> [k \in {} |-> 0]]
    IN  ScanPairs(g0, text, Len(text) - 1)

\* G.degree(weight="weight") of one node: the weights of the edges at the
\* node, a self-loop counted twice.
RECURSIVE SumWeights(_, _, _)
SumWeights(g, n, keys) ==
    IF keys = {} THEN 0
    ELSE LET e == CHOOSE e \in keys : TRUE
         IN  (IF e = {n} THEN 2 * g.w[e] ELSE g.w[e])
             + SumWeights(g, n, keys \ {e})

Degree(g, n) == SumWeights(g, n, {e \in DOMAIN g.w : n \in e})

\* sorted(G.degree(weight="weight"), key=lambda x: x[1], reverse=True)
SortByDegree(g) ==
    SortDesc([k \in DOMAIN g.nodes |-> <<g.nodes[k], Degree(g, g.nodes[k])>>])

\* A call create_word_graph(sorted(found_words.items(), ...), cutoff,
\* text_words) on the tokens ingested so far.
CallCreateWordGraph(cutoff) ==
    /\ pc = "parse"
    /\ pc' = "returned"
    /\ sorted_by_count' = SortedByCount(found_words)
    /\ number_of_words' = cutoff
    /\ G' = CreateWordGraph(SortedByCount(found_words), cutoff, text_words)
    /\ UNCHANGED <<aborted, last_elem, file_start, text_words, found_words,
                   words_ranking, ALL, top_words_by_connections,
                   all_words_by_connections, total_words, cumulative_sum, i,
                   out, calls, response, translation>>

\* ------------------------------------------------------- translate_wiki
\* The value of translate_wiki(word) for a response: the definitions for a
\* 200 with the expected fields, None for another status; requests.get
\* raises on a network error and data["other"][0]["definitions"] raises on
\* a 200 without those fields, and nothing catches either.
translate_wiki(resp) ==
    CASE resp = "ok200" -> "definitions"
      [] resp = "status404" -> None
      [] resp = "malformed200" -> Raised
      [] resp = "neterr" -> Raised

\* One report line evaluates translate_wiki(word) for print and again for
\* write_output; an exception in the first ends the line before the second.
LookupsOfLine(word, r1, r2) ==
    IF translate_wiki(r1) = Raised
    THEN [calls |-> <<word>>, response |-> r1, translation |-> Raised]
    ELSE [calls |-> <<word, word>>, response |-> r2,
          translation |-> translate_wiki(r2)]

\* ---------------------------------------------------------- write_output
Line(sec, n, word, POS, v1, v2, v3) ==
    [sec |-> sec, i |-> n, word |-> word, POS |-> POS,
     v1 |-> v1, v2 |-> v2, v3 |-> v3]

\* Mutant: the file is opened with "w", so each write replaces the file.
write_output_truncating(file, data) == <<data>>

\* open(filename, "a") and f.write(data)
write_output(file, data) == Append(file, data)

\* ------------------------------------------------------------------ main
\* Mutant: the barrier has to be exceeded.
ReachedBarrierStrictly(cum, total) == 10 * cum > 9 * total

\* cumulative_sum >= barrier, with barrier = total_words * 0.9.  The float
\* product is within one rounding of 9 * total / 10, which cannot move it
\* across an integer, so the comparison with the integer cumulative_sum is
\* the comparison of 10 * cumulative_sum with 9 * total_words.
ReachedBarrier(cum, total) == 10 * cum >= 9 * total

SortWords ==
    /\ pc = "sort" /\ ~aborted
    /\ sorted_by_count' = SortedByCount(found_words)
    /\ pc' = "total"
    /\ UNCHANGED <<aborted, last_elem, file_start, text_words, found_words,
                   words_ranking, number_of_words, G, ALL,
                   top_words_by_connections, all_words_by_connections,
                   total_words, cumulative_sum, i, out, calls, response,
                   translation>>

\* The file is cleared and the number of words is written.
WriteTotal ==
    /\ pc = "total" /\ ~aborted
    /\ out' = write_output(<<>>, Line("total", 0, None, None, Len(text_words), 0, 0))
    /\ pc' = "rank"
    /\ UNCHANGED <<aborted, last_elem, file_start, text_words, found_words,
                   sorted_by_count, words_ranking, number_of_words, G, ALL,
                   top_words_by_connections, all_words_by_connections,
                   total_words, cumulative_sum, i, calls, response,
                   translation>>

BuildRanking ==
    /\ pc = "rank" /\ ~aborted
    /\ words_ranking' = WordsRanking(sorted_by_count)
    /\ pc' = "freq_header"
    /\ UNCHANGED <<aborted, last_elem, file_start, text_words, found_words,
                   sorted_by_count, number_of_words, G, ALL,
                   top_words_by_connections, all_words_by_connections,
                   total_words, cumulative_sum, i, out, calls, response,
                   translation>>

WriteFreqHeader ==
    /\ pc = "freq_header" /\ ~aborted
    /\ out' = write_output(out, Line("freq_header", 0, None, None, 0, 0, 0))
    /\ i' = 1
    /\ pc' = "freq"
    /\ UNCHANGED <<aborted, last_elem, file_start, text_words, found_words,
                   sorted_by_count, words_ranking, number_of_words, G, ALL,
                   top_words_by_connections, all_words_by_connections,
                   total_words, cumulative_sum, calls, response, translation>>

\* One round of the loop over words_ranking; i is also the position in it.
WriteFreqLine ==
    /\ pc = "freq" /\ ~aborted
    /\ i <= Len(words_ranking) /\ ~(i > Top50)
    /\ LET e == words_ranking[i]
       IN  out' = write_output(out, Line("freq_line", i, e.word, e.POS,
                                         e.count, e.rank, e.product))
    /\ i' = i + 1
    /\ UNCHANGED <<pc, aborted, last_elem, file_start, text_words, found_words,
                   sorted_by_count, words_ranking, number_of_words, G, ALL,
                   top_words_by_connections, all_words_by_connections,
                   total_words, cumulative_sum, calls, response, translation>>

\* The loop ends (exhausted, or break at i > 50); the plot is drawn and the
\* graph of the 2000 most frequent words is built.
BuildGraph ==
    /\ pc = "freq" /\ ~aborted
    /\ (i > Len(words_ranking) \/ i > Top50)
    /\ number_of_words' = Top2000
    /\ G' = CreateWordGraph(sorted_by_count, Top2000, text_words)
    /\ pc' = "conn_header"
    /\ UNCHANGED <<aborted, last_elem, file_start, text_words, found_words,
                   sorted_by_count, words_ranking, ALL,
                   top_words_by_connections, all_words_by_connections,
                   total_words, cumulative_sum, i, out, calls, response,
                   translation>>

RankConnections ==
    /\ pc = "conn_header" /\ ~aborted
    /\ top_words_by_connections' = SortByDegree(G)
    /\ out' = write_output(out, Line("conn_header", 0, None, None, 0, 0, 0))
    /\ i' = 1
    /\ pc' = "conn"
    /\ UNCHANGED <<aborted, last_elem, file_start, text_words, found_words,
                   sorted_by_count, words_ranking, number_of_words, G, ALL,
                   all_words_by_connections, total_words, cumulative_sum,
                   calls, response, translation>>

\* One round of the loop over top_words_by_connections.
WriteConnLine(r1, r2) ==
    /\ pc = "conn" /\ ~aborted
    /\ i <= Len(top_words_by_connections) /\ ~(i > Top200)
    /\ LET node == top_words_by_connections[i][1]
           degree == top_words_by_connections[i][2]
           t == LookupsOfLine(node[1], r1, r2)
       IN  /\ calls' = calls \o t.calls
           /\ response' = t.response
           /\ translation' = t.translation
           /\ IF t.translation = Raised
              THEN aborted' = TRUE /\ UNCHANGED <<out, i>>
              ELSE /\ out' = write_output(out, Line("conn_line", i, node[1],
                                                    node[2], degree, 0, 0))
                   /\ i' = i + 1
                   /\ UNCHANGED aborted
    /\ UNCHANGED <<pc, last_elem, file_start, text_words, found_words,
                   sorted_by_count, words_ranking, number_of_words, G, ALL,
                   top_words_by_connections, all_words_by_connections,
                   total_words, cumulative_sum>>

\* The loop ends; the graph of the whole vocabulary is built and ranked and
\* the walk starts.
BuildAll ==
    /\ pc = "conn" /\ ~aborted
    /\ (i > Len(top_words_by_connections) \/ i > Top200)
    /\ number_of_words' = Len(sorted_by_count)
    /\ ALL' = CreateWordGraph(sorted_by_count, Len(sorted_by_count), text_words)
    /\ all_words_by_connections' = SortByDegree(ALL')
    /\ total_words' = Len(text_words)
    /\ cumulative_sum' = 0
    /\ i' = 0
    /\ pc' = "core"
    /\ UNCHANGED <<aborted, last_elem, file_start, text_words, found_words,
                   sorted_by_count, words_ranking, G,
                   top_words_by_connections, out, calls, response,
                   translation>>

\* One round of the walk; the statement is written and the loop left when
\* the barrier is reached.
CoverageStep ==
    /\ pc = "core" /\ ~aborted
    /\ i < Len(all_words_by_connections)
    /\ LET word == all_words_by_connections[i + 1][1][1]
           cum == cumulative_sum + CountOf(found_words, word)
       IN  /\ cumulative_sum' = cum
           /\ i' = i + 1
           /\ IF ReachedBarrier(cum, total_words)
              THEN /\ out' = write_output(out, Line("coverage", i + 1, None, None,
                                                    total_words, cum, 9 * total_words))
                   /\ pc' = "core_done"
              ELSE UNCHANGED <<out, pc>>
    /\ UNCHANGED <<aborted, last_elem, file_start, text_words, found_words,
                   sorted_by_count, words_ranking, number_of_words, G, ALL,
                   top_words_by_connections, all_words_by_connections,
                   total_words, calls, response, translation>>

\* After the walk (left by break, or exhausted) the nouns section starts.
WriteNounsHeader ==
    /\ ~aborted
    /\ \/ pc = "core_done"
       \/ pc = "core" /\ i >= Len(all_words_by_connections)
    /\ out' = write_output(out, Line("nouns_header", 0, None, None, 0, 0, 0))
    /\ i' = 1
    /\ pc' = "nouns"
    /\ UNCHANGED <<aborted, last_elem, file_start, text_words, found_words,
                   sorted_by_count, words_ranking, number_of_words, G, ALL,
                   top_words_by_connections, all_words_by_connections,
                   total_words, cumulative_sum, calls, response, translation>>

\* One round of the while loop: pop(0), and a line when the tag is noun.
NounStep(r1, r2) ==
    /\ pc = "nouns" /\ ~aborted
    /\ i <= Top50Nouns /\ top_words_by_connections # <<>>
    /\ top_words_by_connections' = Tail(top_words_by_connections)
    /\ LET node == Head(top_words_by_connections)[1]
           degree == Head(top_words_by_connections)[2]
           t == LookupsOfLine(node[1], r1, r2)
       IN  IF node[2] = "noun"
           THEN /\ calls' = calls \o t.calls
                /\ response' = t.response
                /\ translation' = t.translation
                /\ IF t.translation = Raised
                   THEN aborted' = TRUE /\ UNCHANGED <<out, i>>
                   ELSE /\ out' = write_output(out, Line("noun_line", i, node[1],
                                                         node[2], degree, 0, 0))
                        /\ i' = i + 1
                        /\ UNCHANGED aborted
           ELSE UNCHANGED <<calls, response, translation, aborted, out, i>>
    /\ UNCHANGED <<pc, last_elem, file_start, text_words, found_words,
                   sorted_by_count, words_ranking, number_of_words, G, ALL,
                   all_words_by_connections, total_words, cumulative_sum>>

\* The while loop ends and main returns.
Finish ==
    /\ pc = "nouns" /\ ~aborted
    /\ ~(i <= Top50Nouns /\ top_words_by_connections # <<>>)
    /\ pc' = "done"
    /\ UNCHANGED <<aborted, last_elem, file_start, text_words, found_words,
                   sorted_by_count, words_ranking, number_of_words, G, ALL,
                   top_words_by_connections, all_words_by_connections,
                   total_words, cumulative_sum, i, out, calls, response,
                   translation>>

Main ==
    \/ SortWords
    \/ WriteTotal
    \/ BuildRanking
    \/ WriteFreqHeader
    \/ WriteFreqLine
    \/ BuildGraph
    \/ RankConnections
    \/ \E r1, r2 \in Responses : WriteConnLine(r1, r2)
    \/ BuildAll
    \/ CoverageStep
    \/ WriteNounsHeader
    \/ \E r1, r2 \in Responses : NounStep(r1, r2)
    \/ Finish

Init ==
    /\ pc = "parse"
    /\ aborted = FALSE
    /\ last_elem = "none"
    /\ file_start = 0
    /\ text_words = <<>>
    /\ found_words = <<>>
    /\ sorted_by_count = <<>>
    /\ words_ranking = <<>>
    /\ number_of_words = 0
    /\ G = EmptyGraph
    /\ ALL = EmptyGraph
    /\ top_words_by_connections = <<>>
    /\ all_words_by_connections = <<>>
    /\ total_words = 0
    /\ cumulative_sum = 0
    /\ i = 0
    /\ out = <<>>
    /\ calls = <<>>
    /\ response = "none"
    /\ translation = None

Parse ==
    \/ NextXmlFile
    \/ \E kind \in SkippedKinds : SkipElement(kind)
    \/ \E entry \in Lemmas, POS \in POSTags :
          Len(text_words) < MaxTokens /\ IngestToken(entry, POS)
    \/ ReturnFromParse

Next == Parse \/ Main

Spec == Init /\ [][Next]_vars

NextGraph ==
    \/ NextXmlFile
    \/ \E kind \in SkippedKinds : SkipElement(kind)
    \/ \E entry \in Lemmas, POS \in POSTags :
          Len(text_words) < MaxTokens /\ IngestToken(entry, POS)
    \/ \E cutoff \in 0..MaxCut : CallCreateWordGraph(cutoff)

SpecGraph == Init /\ [][NextGraph]_vars

\* Corpora of one tag and two lemmas, long enough for nine tenths of the
\* tokens to be fewer than all of them.
NextCoverage ==
    \/ NextXmlFile
    \/ \E kind \in SkippedKinds : SkipElement(kind)
    \/ \E entry \in CovLemmas, POS \in CovTags :
          Len(text_words) < MaxCovTokens /\ IngestToken(entry, POS)
    \/ ReturnFromParse
    \/ Main

SpecCoverage == Init /\ [][NextCoverage]_vars

\* ----------------------------------------------------------------- C1
\* C1: the graph create_word_graph returns has no self-loop, whatever the
\* tokens and the cutoff; with cutoff 1 (and a vocabulary that is not
\* empty) it has exactly 1 node and 0 edges.
C1_NoSelfLoop ==
    pc = "returned" =>
        /\ \A e \in DOMAIN G.w : Cardinality(e) = 2
        /\ (number_of_words = 1 /\ found_words # <<>>) =>
               (Len(G.nodes) = 1 /\ DOMAIN G.w = {})

\* ----------------------------------------------------------------- C2
\* The number of positions whose two neighbouring tokens have the lemmas a
\* and b, in either order.
AdjacentLemmas(text, a, b) ==
    Cardinality({k \in 1..(Len(text) - 1) :
                    {text[k][1], text[k + 1][1]} = {a, b}})

\* The node of a lemma of the table: the lemma with its stored tag.
NodeOf(fw, a) == <<a, fw[IndexOf(fw, a)].POS>>

\* C2: for two distinct lemmas among the first number_of_words ranked
\* entries, the weight of the edge between their nodes is the number of
\* positions where the two lemmas are neighbours in text_words.
C2_WeightCountsLemmaPairs ==
    pc = "returned" =>
        \A ka, kb \in 1..Min(number_of_words, Len(sorted_by_count)) :
            ka # kb =>
                Weight(G, NodeOf(found_words, sorted_by_count[ka].entry),
                          NodeOf(found_words, sorted_by_count[kb].entry))
                    = AdjacentLemmas(text_words, sorted_by_count[ka].entry,
                                     sorted_by_count[kb].entry)

\* ----------------------------------------------------------------- C3
\* The positions of the coverage statement in the report.
CoverageLines == {k \in DOMAIN out : out[k].sec = "coverage"}

\* The occurrence counts of the first n nodes of the degree ordering.
RECURSIVE PrefixCount(_)
PrefixCount(n) ==
    IF n = 0 THEN 0
    ELSE CountOf(found_words, all_words_by_connections[n][1][1]) + PrefixCount(n - 1)

WalkOver == pc \in {"core_done", "nouns", "done"}

\* C3: for a corpus that is not empty, the walk over the whole vocabulary
\* in descending weighted degree reports, exactly once, a prefix length and
\* the sum of the occurrence counts of that prefix; the sum is at least
\* nine tenths of the number of tokens and no shorter prefix reaches that.
C3_CoverageAtShortestPrefix ==
    (WalkOver /\ text_words # <<>>) =>
        /\ Cardinality(CoverageLines) = 1
        /\ Len(all_words_by_connections) = Len(found_words)
        /\ \A k \in DOMAIN found_words :
               \E j \in DOMAIN all_words_by_connections :
                   all_words_by_connections[j][1] = <<found_words[k].entry, found_words[k].POS>>
        /\ \A j \in DOMAIN all_words_by_connections :
               /\ all_words_by_connections[j][2] = Degree(ALL, all_words_by_connections[j][1])
               /\ \A k \in DOMAIN all_words_by_connections :
                      j < k => all_words_by_connections[j][2] >= all_words_by_connections[k][2]
        /\ \A k \in CoverageLines :
               /\ out[k].v1 = Len(text_words)
               /\ out[k].i \in 1..Len(all_words_by_connections)
               /\ out[k].v2 = PrefixCount(out[k].i)
               /\ 10 * out[k].v2 >= 9 * Len(text_words)
               /\ \A m \in 0..(out[k].i - 1) : 10 * PrefixCount(m) < 9 * Len(text_words)

\* The barrier is reached before the vocabulary is exhausted.
C3_Witness ==
    /\ WalkOver
    /\ \E k \in CoverageLines :
           /\ out[k].i < Len(all_words_by_connections)
           /\ 10 * out[k].v2 = 9 * Len(text_words)

\* ----------------------------------------------------------------- C4
\* C4: at every point of the ingestion the occurrence counts of found_words
\* add up to the length of text_words, and an element that is no word with
\* a lemma entry changes neither.
C4_CountsAddUpToTokens ==
    /\ [](SumCounts(found_words) = Len(text_words))
    /\ [][(pc = "parse" /\ last_elem' \in SkippedKinds)
            => UNCHANGED <<found_words, text_words>>]_vars

\* A repeated lemma, tokens of two files, and a skipped element last.
C4_Witness ==
    /\ pc = "parse"
    /\ last_elem \in SkippedKinds
    /\ file_start > 0
    /\ Len(text_words) > file_start
    /\ \E k \in DOMAIN found_words : found_words[k].count >= 2

\* ----------------------------------------------------------------- C5
\* The first position of a lemma in the token sequence.
FirstOccurrence(text, entry) ==
    CHOOSE k \in DOMAIN text :
        /\ text[k][1] = entry
        /\ \A j \in 1..(k - 1) : text[j][1] # entry

\* C5: the tag stored for a lemma is the tag of its first occurrence, and a
\* later occurrence with another tag adds exactly one to the count and
\* leaves the stored tag as it is.
C5_FirstSeenTagWins ==
    /\ [](\A k \in DOMAIN found_words :
             found_words[k].POS
                 = text_words[FirstOccurrence(text_words, found_words[k].entry)][2])
    /\ [][\A k \in DOMAIN found_words :
             (/\ Len(text_words') = Len(text_words) + 1
              /\ text_words'[Len(text_words')][1] = found_words[k].entry
              /\ text_words'[Len(text_words')][2] # found_words[k].POS)
             => /\ found_words'[k].entry = found_words[k].entry
                /\ found_words'[k].POS = found_words[k].POS
                /\ found_words'[k].count = found_words[k].count + 1
                /\ Len(found_words') = Len(found_words)]_vars

\* A lemma seen twice whose last occurrence carries another tag.
C5_Witness ==
    /\ text_words # <<>>
    /\ \E k \in DOMAIN found_words :
           /\ found_words[k].count >= 2
           /\ text_words[Len(text_words)][1] = found_words[k].entry
           /\ text_words[Len(text_words)][2] # found_words[k].POS

\* ----------------------------------------------------------------- C6
RankingBuilt == pc \notin {"parse", "returned", "sort", "total", "rank"}

\* C6: words_ranking is a permutation of the records of found_words in
\* non-increasing count, equal counts in first-seen order; the entry at
\* position n has rank n and product count * n; an empty table gives an
\* empty ranking.
C6_RankingIsStableDescending ==
    RankingBuilt =>
        /\ Len(words_ranking) = Len(found_words)
        /\ \A n \in DOMAIN words_ranking :
               /\ words_ranking[n].rank = n
               /\ words_ranking[n].product = words_ranking[n].count * n
               /\ \E k \in DOMAIN found_words :
                      /\ found_words[k].entry = words_ranking[n].word
                      /\ found_words[k].count = words_ranking[n].count
                      /\ found_words[k].POS = words_ranking[n].POS
        /\ \A n, m \in DOMAIN words_ranking :
               n < m =>
                   /\ words_ranking[n].word # words_ranking[m].word
                   /\ words_ranking[n].count >= words_ranking[m].count
                   /\ words_ranking[n].count = words_ranking[m].count
                        => IndexOf(found_words, words_ranking[n].word)
                             < IndexOf(found_words, words_ranking[m].word)

\* A ranking with a tie, led by a lemma that was not the first one seen.
C6_Witness ==
    /\ RankingBuilt
    /\ Len(words_ranking) = 3
    /\ words_ranking[1].word # found_words[1].entry
    /\ words_ranking[2].count = words_ranking[3].count

\* ----------------------------------------------------------------- C7
\* C7: a lookup that fails (network error, status other than 200, or a
\* response without the expected fields) gives a None translation and
\* does not end the run.
C7_FailedLookupGivesNone ==
    response \in {"status404", "malformed200", "neterr"}
        => (translation = None /\ ~aborted)

\* ----------------------------------------------------------------- C8
\* C8: on an empty corpus the run ends with an empty ranking, an empty
\* graph and a reported coverage result of size 0, total 0 and sum 0.
C8_EmptyCorpusReportsZeroCoverage ==
    (pc = "done" /\ text_words = <<>>) =>
        /\ words_ranking = <<>>
        /\ G = EmptyGraph
        /\ ALL = EmptyGraph
        /\ \E k \in CoverageLines :
               out[k].i = 0 /\ out[k].v1 = 0 /\ out[k].v2 = 0

\* ----------------------------------------------------------------- C9
\* The place of a section in the order the claim states: the nouns list
\* goes with the centrality ranking and the coverage statement is last.
ClaimedStage(sec) ==
    CASE sec = "total" -> 1
      [] sec \in {"freq_header", "freq_line"} -> 2
      [] sec \in {"conn_header", "conn_line", "nouns_header", "noun_line"} -> 3
      [] sec = "coverage" -> 4

\* The place of a section in the order main writes them.
WrittenStage(sec) ==
    CASE sec = "total" -> 1
      [] sec \in {"freq_header", "freq_line"} -> 2
      [] sec \in {"conn_header", "conn_line"} -> 3
      [] sec = "coverage" -> 4
      [] sec \in {"nouns_header", "noun_line"} -> 5

Sections == {out[k].sec : k \in DOMAIN out}

\* C9 as stated: the sections are written in the order total, frequency
\* ranking, centrality ranking with its nouns list, coverage statement, and
\* nothing is written after the coverage statement.
C9_CoverageStatementLast ==
    \A j, k \in DOMAIN out :
        j < k => ClaimedStage(out[j].sec) <= ClaimedStage(out[k].sec)

\* C9 amended: the sections are written in the order total, frequency
\* ranking, centrality ranking, coverage statement (when one is written),
\* nouns list; a run that ends has written the total and the three headers,
\* each once, and the nouns list is the last section.
C9_SectionsInWrittenOrder ==
    /\ \A j, k \in DOMAIN out :
           j < k => WrittenStage(out[j].sec) <= WrittenStage(out[k].sec)
    /\ \A j, k \in DOMAIN out :
           (j < k /\ out[j].sec = out[k].sec) => out[j].sec \in {"freq_line", "conn_line", "noun_line"}
    /\ pc = "done" =>
           /\ {"total", "freq_header", "conn_header", "nouns_header"} \subseteq Sections
           /\ WrittenStage(out[Len(out)].sec) = 5

\* A finished run that wrote the coverage statement and then a noun line.
C9_Witness ==
    /\ pc = "done"
    /\ "coverage" \in Sections
    /\ out[Len(out)].sec = "noun_line"

\* ---------------------------------------------------------------- C10
\* C10: in one run translate_wiki is called at most once for any lemma.
C10_OneLookupPerLemma ==
    \A w \in Lemmas : Cardinality({k \in DOMAIN calls : calls[k] = w}) <= 1
====
